---- MODULE Spec2Model ----
(***************************************************************************)
(* Gleam: a caching reverse proxy (src/gleam.go).                          *)
(*                                                                         *)
(* The module models the cache layer of the proxy:                         *)
(*   - the binary codec (encodeCacheItem / decodeCacheItem) at the level   *)
(*     of bytes, including the base64 transport layer;                     *)
(*   - the process-local store (SimpleCache) with its mutex;               *)
(*   - the remote store (RedisCache) over a key-value backend;             *)
(*   - the response capture (CacheResponseWriter) and the request handler. *)
(*                                                                         *)
(* Bytes are integers 0..255, byte strings are sequences of bytes, an      *)
(* http.Header is a function from keys (byte strings) to sequences of      *)
(* values (byte strings), a time.Time is a record of its wall-clock        *)
(* seconds, nanoseconds and zone.                                          *)
(***************************************************************************)
EXTENDS Integers, Sequences, FiniteSets, TLC

VARIABLES
    \* ---- codec (encodeCacheItem / decodeCacheItem) ----
    cItem,      \* the CacheItem handed to encodeCacheItem
    cEnc,       \* result of encodeCacheItem: [err, data]
    cData,      \* the bytes handed to decodeCacheItem
    cKind,      \* how cData was obtained from cEnc.data
    cOrder,     \* the order in which encodeCacheItem iterated the header map
    cRes,       \* result of decodeCacheItem: [err, item]
    \* ---- SimpleCache and its callers ----
    now,        \* the clock time.Now() reads
    mu,         \* SimpleCache.mu: 0 when unlocked, else the goroutine holding it
    store,      \* SimpleCache.store: a map from keys to items
    writing,    \* the goroutines in the middle of an assignment to the map
    corrupt,    \* the map was accessed by a reader or writer during a write
    pc,         \* where each goroutine is
    op,         \* each goroutine's call frame: arguments, locals, results
    calls,      \* the number of calls made so far
    lastSet,    \* history: per key, the entry the last completed Set asked for
    \* ---- the request handler ----
    configTTL,  \* config.TTL
    cacheType,  \* config.CacheType: which Cache main constructed
    req,        \* each goroutine's request, origin response and call counts
    sink,       \* each goroutine's http.ResponseWriter w: what the client is sent
    crw,        \* each goroutine's CacheResponseWriter: buf, header and status
    wcall,      \* the last call made on a CacheResponseWriter used on its own
    \* ---- RedisCache and the backend ----
    backend,    \* the keys the backend holds: value, whether it expires, and when
    rcall,      \* each goroutine's RedisCache call: backend commands and replies
    tampered,   \* a value in the backend was cut short by another client
    written     \* history: per key, how the last SET ended, whether one was ever taken

codecVars == <<cItem, cOrder, cEnc, cData, cKind, cRes>>

cacheVars == <<now, mu, store, writing, corrupt, pc, op, calls, lastSet>>

handlerVars == <<configTTL, cacheType, req, sink, crw, wcall>>

redisVars == <<backend, rcall, tampered, written>>

vars == <<cItem, cOrder, cEnc, cData, cKind, cRes,
          now, mu, store, writing, corrupt, pc, op, calls, lastSet,
          configTTL, cacheType, req, sink, crw, wcall,
          backend, rcall, tampered, written>>

-----------------------------------------------------------------------------
(* Bounds of the model.                                                    *)

\* longest body of a cache item drawn for the codec
MaxBody == 2
\* largest number of values of one header key drawn for the codec
MaxValues == 2
\* number of calls made to RedisCache
MaxRedisCalls == 2
\* number of calls made on a CacheResponseWriter used on its own
MaxWrites == 3
\* number of goroutines calling the cache concurrently
NumProcs == 2
\* the clock runs from 0 to MaxTime
MaxTime == 1
\* the number of calls made on the cache in one behaviour of SpecStore
MaxCalls == 3
\* the number of requests handled in one behaviour of Spec
MaxRequests == 2

-----------------------------------------------------------------------------
(* Byte strings.                                                           *)

Min(a, b) == IF a < b THEN a ELSE b

Zeros(n) == [i \in 1..n |-> 0]

Take(s, n) == SubSeq(s, 1, Min(n, Len(s)))

Drop(s, n) == SubSeq(s, n + 1, Len(s))

\* binary.Write(&buf, binary.LittleEndian, uint32(n))
PutUint32LE(n) ==
    << n % 256, (n \div 256) % 256, (n \div 65536) % 256, (n \div 16777216) % 256 >>

\* binary.LittleEndian.Uint32 of the four bytes of d that follow position pos
Uint32LE(d, pos) ==
    d[pos + 1] + 256 * d[pos + 2] + 65536 * d[pos + 3] + 16777216 * d[pos + 4]

\* big-endian bytes of a non-negative integer, n bytes wide (time.Time's layout)
RECURSIVE PutBE(_, _)
PutBE(v, n) == IF n = 0 THEN << >> ELSE Append(PutBE(v \div 256, n - 1), v % 256)

RECURSIVE GetBE(_)
GetBE(s) == IF s = << >> THEN 0 ELSE 256 * GetBE(SubSeq(s, 1, Len(s) - 1)) + s[Len(s)]

-----------------------------------------------------------------------------
(* time.Time and its binary form (time.Time.MarshalBinary,                 *)
(* time.Time.UnmarshalBinary of the Go 1.21 the Dockerfile pins).          *)

\* the zero time.Time{}: its location is UTC
ZeroTime == [sec |-> 0, nsec |-> 0, utc |-> TRUE, offset |-> 0]

timeBinaryVersionV1 == 1
timeBinaryVersionV2 == 2

\* Go's integer division and remainder truncate toward zero
QuoT(a, b) == IF a >= 0 THEN a \div b ELSE -((-a) \div b)
RemT(a, b) == a - b * QuoT(a, b)

\* item.expiration.MarshalBinary(): [err, data]
MarshalBinary(t) ==
    LET version   == IF ~t.utc /\ RemT(t.offset, 60) # 0
                     THEN timeBinaryVersionV2 ELSE timeBinaryVersionV1
        offsetSec == IF t.utc THEN 0 ELSE RemT(t.offset, 60)
        offsetMin == IF t.utc THEN -1 ELSE QuoT(t.offset, 60)
        bad       == ~t.utc /\ (offsetMin < -32768 \/ offsetMin = -1 \/ offsetMin > 32767)
        enc       == <<version>> \o PutBE(t.sec, 8) \o PutBE(t.nsec, 4)
                     \o PutBE((offsetMin + 65536) % 65536, 2)
    IN  IF bad THEN [err |-> TRUE, data |-> << >>]
        ELSE [err  |-> FALSE,
              data |-> IF version = timeBinaryVersionV2
                       THEN Append(enc, (offsetSec + 256) % 256) ELSE enc]

\* item.expiration.UnmarshalBinary(data): [err, time]
UnmarshalBinary(data) ==
    IF Len(data) = 0 THEN [err |-> TRUE, time |-> ZeroTime]
    ELSE
    LET version == data[1]
        wantLen == IF version = timeBinaryVersionV2 THEN 16 ELSE 15
    IN  IF version # timeBinaryVersionV1 /\ version # timeBinaryVersionV2
        THEN [err |-> TRUE, time |-> ZeroTime]
        ELSE IF Len(data) # wantLen
        THEN [err |-> TRUE, time |-> ZeroTime]
        ELSE
        LET sec    == GetBE(SubSeq(data, 2, 9))
            nsec   == GetBE(SubSeq(data, 10, 13))
            raw    == GetBE(SubSeq(data, 14, 15))
            omin   == IF raw >= 32768 THEN raw - 65536 ELSE raw
            \* offset += int(buf[2]): the seconds byte is read unsigned
            offset == omin * 60 + (IF version = timeBinaryVersionV2 THEN data[16] ELSE 0)
        IN  [err  |-> FALSE,
             time |-> IF offset = -60
                      THEN [sec |-> sec, nsec |-> nsec, utc |-> TRUE, offset |-> 0]
                      ELSE [sec |-> sec, nsec |-> nsec, utc |-> FALSE, offset |-> offset]]

-----------------------------------------------------------------------------
(* base64.StdEncoding: the text-safe transport layer.                      *)

\* the i-th character (ASCII code) of the standard alphabet, i in 0..63
B64Char(i) ==
    IF i < 26 THEN 65 + i
    ELSE IF i < 52 THEN 97 + (i - 26)
    ELSE IF i < 62 THEN 48 + (i - 52)
    ELSE IF i = 62 THEN 43 ELSE 47

B64Pad == 61

\* the index of character c in the standard alphabet, or -1
B64Index(c) ==
    IF c >= 65 /\ c <= 90 THEN c - 65
    ELSE IF c >= 97 /\ c <= 122 THEN c - 97 + 26
    ELSE IF c >= 48 /\ c <= 57 THEN c - 48 + 52
    ELSE IF c = 43 THEN 62
    ELSE IF c = 47 THEN 63 ELSE -1

\* base64.StdEncoding.EncodeToString(b)
RECURSIVE EncodeToString(_)
EncodeToString(b) ==
    IF Len(b) = 0 THEN << >>
    ELSE IF Len(b) = 1 THEN
        << B64Char(b[1] \div 4), B64Char((b[1] % 4) * 16), B64Pad, B64Pad >>
    ELSE IF Len(b) = 2 THEN
        << B64Char(b[1] \div 4), B64Char((b[1] % 4) * 16 + b[2] \div 16),
           B64Char((b[2] % 16) * 4), B64Pad >>
    ELSE
        << B64Char(b[1] \div 4), B64Char((b[1] % 4) * 16 + b[2] \div 16),
           B64Char((b[2] % 16) * 4 + b[3] \div 64), B64Char(b[3] % 64) >>
        \o EncodeToString(Drop(b, 3))

\* the decoder skips '\r' and '\n'
IsNewline(c) == c = 10 \/ c = 13

\* one quantum of four characters: [err, data]; padding only where last = TRUE
DecodeQuantum(q, last) ==
    LET i1 == B64Index(q[1])
        i2 == B64Index(q[2])
        i3 == B64Index(q[3])
        i4 == B64Index(q[4])
    IN  IF i1 < 0 \/ i2 < 0 THEN [err |-> TRUE, data |-> << >>]
        ELSE IF i3 >= 0 /\ i4 >= 0 THEN
            [err |-> FALSE,
             data |-> << i1 * 4 + i2 \div 16, (i2 % 16) * 16 + i3 \div 4, (i3 % 4) * 64 + i4 >>]
        ELSE IF last /\ i3 >= 0 /\ q[4] = B64Pad THEN
            [err |-> FALSE, data |-> << i1 * 4 + i2 \div 16, (i2 % 16) * 16 + i3 \div 4 >>]
        ELSE IF last /\ q[3] = B64Pad /\ q[4] = B64Pad THEN
            [err |-> FALSE, data |-> << i1 * 4 + i2 \div 16 >>]
        ELSE [err |-> TRUE, data |-> << >>]

RECURSIVE DecodeQuanta(_)
DecodeQuanta(s) ==
    IF Len(s) = 0 THEN [err |-> FALSE, data |-> << >>]
    ELSE IF Len(s) < 4 THEN [err |-> TRUE, data |-> << >>]
    ELSE LET q    == DecodeQuantum(SubSeq(s, 1, 4), Len(s) = 4)
             rest == DecodeQuanta(Drop(s, 4))
         IN  IF q.err \/ rest.err THEN [err |-> TRUE, data |-> << >>]
             ELSE [err |-> FALSE, data |-> q.data \o rest.data]

\* base64.StdEncoding.DecodeString(s): [err, data]
DecodeString(s) == DecodeQuanta(SelectSeq(s, LAMBDA c : ~IsNewline(c)))

-----------------------------------------------------------------------------
(* CacheItem and the binary codec.                                         *)

\* CacheItem{content, header, expiration}
CacheItem(content, header, expiration) ==
    [content |-> content, header |-> header, expiration |-> expiration]

\* &CacheItem{} : no content, no header, zero expiration
EmptyItem == CacheItem(<< >>, << >>, ZeroTime)

\* header[key] = values
PutHeader(h, key, values) ==
    [k \in DOMAIN h \cup {key} |-> IF k = key THEN values ELSE h[k]]

\* EncodeValues with empty values left out of the encoding
RECURSIVE EncodeValuesSkipEmpty(_)
EncodeValuesSkipEmpty(values) ==
    IF values = << >> THEN << >>
    ELSE IF values[1] = << >> THEN EncodeValuesSkipEmpty(Tail(values))
    ELSE PutUint32LE(Len(values[1])) \o values[1] \o EncodeValuesSkipEmpty(Tail(values))

\* for _, value := range values { write len(value), value }
RECURSIVE EncodeValues(_)
EncodeValues(values) ==
    IF values = << >> THEN << >>
    ELSE PutUint32LE(Len(values[1])) \o values[1] \o EncodeValues(Tail(values))

\* one header entry: the key, the number of values, the values
EncodeHeaderEntry(key, values) ==
    PutUint32LE(Len(key)) \o key \o PutUint32LE(Len(values)) \o EncodeValues(values)

\* for key, values := range item.header {...}, the map iterated in the order `order`
RECURSIVE EncodeHeader(_, _)
EncodeHeader(header, order) ==
    IF order = << >> THEN << >>
    ELSE EncodeHeaderEntry(order[1], header[order[1]]) \o EncodeHeader(header, Tail(order))

\* the bytes encodeCacheItem assembles in buf before the base64 step: [err, data]
EncodeBinary(item, order) ==
    LET exp == MarshalBinary(item.expiration)
    IN  IF exp.err THEN [err |-> TRUE, data |-> << >>]
        ELSE [err  |-> FALSE,
              data |-> PutUint32LE(Len(item.content)) \o item.content
                       \o PutUint32LE(Cardinality(DOMAIN item.header))
                       \o EncodeHeader(item.header, order)
                       \o PutUint32LE(Len(exp.data)) \o exp.data]

\* encodeCacheItem(item), the header map iterated in the order `order`: [err, data]
encodeCacheItem(item, order) ==
    LET bin == EncodeBinary(item, order)
    IN  IF bin.err THEN bin ELSE [err |-> FALSE, data |-> EncodeToString(bin.data)]

\* the iteration orders of a header map: every ordering of its keys
RECURSIVE Orders(_)
Orders(keys) ==
    IF keys = {} THEN { << >> }
    ELSE UNION { { <<k>> \o o : o \in Orders(keys \ {k}) } : k \in keys }

\* binary.Read(buf, binary.LittleEndian, &x) of a uint32 at position pos:
\* io.ReadFull fails unless four bytes remain
ReadUint32(d, pos) ==
    IF pos + 4 <= Len(d)
    THEN [ok |-> TRUE, val |-> Uint32LE(d, pos), pos |-> pos + 4]
    ELSE [ok |-> FALSE, val |-> 0, pos |-> pos]

\* b := make([]byte, n); buf.Read(b) at position pos. bytes.Reader.Read
\* fails (io.EOF) only when nothing remains; otherwise it copies what is
\* there, which may be fewer than n bytes, and the rest of b stays zero.
ReaderRead(d, pos, n) ==
    IF pos >= Len(d)
    THEN [ok |-> FALSE, bytes |-> Zeros(n), pos |-> pos]
    ELSE LET m == Min(n, Len(d) - pos)
         IN  [ok |-> TRUE, bytes |-> SubSeq(d, pos + 1, pos + m) \o Zeros(n - m),
              pos |-> pos + m]

\* a length-prefixed field: the uint32 length, then the payload
ReadField(d, pos) ==
    LET n == ReadUint32(d, pos)
    IN  IF ~n.ok THEN [ok |-> FALSE, bytes |-> << >>, pos |-> pos]
        ELSE ReaderRead(d, n.pos, n.val)

\* for j := 0; j < valuesLen; j++ {...}: [ok, values, pos]
RECURSIVE ReadValues(_, _, _, _)
ReadValues(d, pos, left, acc) ==
    IF left = 0 THEN [ok |-> TRUE, values |-> acc, pos |-> pos]
    ELSE LET v == ReadField(d, pos)
         IN  IF ~v.ok THEN [ok |-> FALSE, values |-> acc, pos |-> pos]
             ELSE ReadValues(d, v.pos, left - 1, Append(acc, v.bytes))

\* for i := 0; i < headerLen; i++ {...}: [ok, header, pos]
RECURSIVE ReadHeader(_, _, _, _)
ReadHeader(d, pos, left, acc) ==
    IF left = 0 THEN [ok |-> TRUE, header |-> acc, pos |-> pos]
    ELSE LET key == ReadField(d, pos)
             cnt == ReadUint32(d, key.pos)
             vs  == ReadValues(d, cnt.pos, cnt.val, << >>)
         IN  IF ~key.ok \/ ~cnt.ok \/ ~vs.ok
             THEN [ok |-> FALSE, header |-> acc, pos |-> pos]
             ELSE ReadHeader(d, vs.pos, left - 1, PutHeader(acc, key.bytes, vs.values))

\* decodeCacheItem after the base64 step, on the decoded bytes d: [err, item]
DecodeBinary(d) ==
    LET content == ReadField(d, 0)
        hlen    == ReadUint32(d, content.pos)
        header  == ReadHeader(d, hlen.pos, hlen.val, << >>)
        expb    == ReadField(d, header.pos)
        exp     == UnmarshalBinary(expb.bytes)
    IN  IF ~content.ok \/ ~hlen.ok \/ ~header.ok \/ ~expb.ok \/ exp.err
        THEN [err |-> TRUE, item |-> EmptyItem]
        ELSE [err |-> FALSE, item |-> CacheItem(content.bytes, header.header, exp.time)]

\* decodeCacheItem(data): [err, item]
decodeCacheItem(data) ==
    LET decoded == DecodeString(data)
    IN  IF decoded.err THEN [err |-> TRUE, item |-> EmptyItem]
        ELSE DecodeBinary(decoded.data)

\* no codec call in progress
NoResult == [err |-> FALSE, item |-> EmptyItem]
NoData == [err |-> FALSE, data |-> << >>]

CodecIdle ==
    /\ cItem = EmptyItem
    /\ cOrder = << >>
    /\ cEnc = NoData
    /\ cData = << >>
    /\ cKind = "new"
    /\ cRes = NoResult

-----------------------------------------------------------------------------
(* SimpleCache: the process-local store.                                   *)

Procs == 1..NumProcs

\* the cache keys: request URLs, used byte for byte
Keys == {"/foo", "/foo?x=1"}

\* the time-to-live values drawn, in ticks of the clock
TTLs == {0, 1, 2}

\* time.Now() when the clock shows n, in the local zone
TimeAt(n) == [sec |-> n, nsec |-> 0, utc |-> FALSE, offset |-> 0]

\* t.Add(d)
TimeAdd(t, d) == [t EXCEPT !.sec = @ + d]

\* t.Before(u)
TimeBefore(t, u) == t.sec < u.sec \/ (t.sec = u.sec /\ t.nsec < u.nsec)

\* the result of a map lookup: item, found := c.store[key]
Absent == [present |-> FALSE, item |-> EmptyItem]
Present(item) == [present |-> TRUE, item |-> item]

\* a lookup that answers for an absent key with the entry of another key
LookupAnyKey(m, key) ==
    IF key \in DOMAIN m THEN Present(m[key])
    ELSE IF DOMAIN m # {} THEN Present(m[CHOOSE k \in DOMAIN m : TRUE])
    ELSE Absent

Lookup(m, key) == IF key \in DOMAIN m THEN Present(m[key]) ELSE Absent

\* MapAssign that keeps an entry the map already holds
MapAssignIfAbsent(m, key, item) ==
    [k \in DOMAIN m \cup {key} |-> IF k \in DOMAIN m THEN m[k] ELSE item]

\* c.store[key] = item
MapAssign(m, key, item) ==
    [k \in DOMAIN m \cup {key} |-> IF k = key THEN item ELSE m[k]]

\* NewCacheItem with the time-to-live left out of the expiration
NewCacheItemNoTTL(content, header, t, ttl) == CacheItem(content, header, t)

\* &CacheItem{content: content, header: header, expiration: time.Now().Add(ttl)}
NewCacheItem(content, header, t, ttl) == CacheItem(content, header, TimeAdd(t, ttl))

\* a Get that deletes the entry it finds expired
StoreAfterGetSweeps(m, key, t) ==
    IF key \in DOMAIN m /\ ~TimeBefore(t, m[key].expiration)
    THEN [k \in DOMAIN m \ {key} |-> m[k]]
    ELSE m

\* the map after Get(key) at time t: Get assigns nothing to c.store
StoreAfterGet(m, key, t) == m

\* GetResult with an entry counted as expired at its expiration instant
GetResultAtOrBefore(entry, t) ==
    IF ~entry.present \/ ~TimeBefore(t, entry.item.expiration)
    THEN [found |-> FALSE, item |-> EmptyItem]
    ELSE [found |-> TRUE, item |-> entry.item]

\* Get's decision: if !found || item.expiration.Before(time.Now()) { return nil, false }
GetResult(entry, t) ==
    IF ~entry.present \/ TimeBefore(entry.item.expiration, t)
    THEN [found |-> FALSE, item |-> EmptyItem]
    ELSE [found |-> TRUE, item |-> entry.item]

\* Lock that does not wait for the holder
LockNoWait(p) == mu' = p

\* c.mu.Lock(): blocks until the mutex is free
Lock(p) == mu = 0 /\ mu' = p

\* a return that leaves the mutex as it is
UnlockForgotten(p) == mu' = mu

\* defer c.mu.Unlock()
Unlock(p) == mu' = 0

\* what an unsynchronised read of the map slot can produce while goroutine w
\* writes it: the old entry, the new entry, or the new item with fields not
\* yet visible
RacyReads(old, w) ==
    {old} \cup { Present(CacheItem(c, h, e)) :
                   c \in {op[w].item.content, << >>},
                   h \in {op[w].item.header, << >>},
                   e \in {op[w].item.expiration, ZeroTime} }

\* the complete entries a lookup of key can meet: the one the map holds and
\* the ones being assigned to it
WholeEntries(key) ==
    {Lookup(store, key)} \cup { Present(op[w].item) : w \in {x \in writing : op[x].key = key} }

\* history of a key: the entry its last completed Set asked for, whether that
\* Set replaced an entry (replaced), one of other content that would have
\* expired later (shortened), one that had expired (revived)
NoHistory ==
    [present |-> FALSE, item |-> EmptyItem,
     replaced |-> FALSE, shortened |-> FALSE, revived |-> FALSE]

\* how the instant t relates to the expiration of the entry in history h
Relation(h, t) ==
    IF ~h.present THEN "none"
    ELSE IF t < h.item.expiration.sec THEN "before"
    ELSE IF t = h.item.expiration.sec THEN "at" ELSE "after"

\* a call frame with nothing in it
NoOp ==
    [kind |-> "none", key |-> "", content |-> << >>, header |-> << >>, ttl |-> 0,
     item |-> EmptyItem, found |-> FALSE,
     at |-> 0, seen |-> NoHistory, rel |-> "none", whole |-> TRUE, overlap |-> FALSE]

\* the frame of a call to Set that leaves the headers out
SetOpNoHeader(key, content, header, ttl) ==
    [NoOp EXCEPT !.kind = "Set", !.key = key, !.content = content, !.ttl = ttl]

\* the frame of a call Set(key, content, header, ttl)
SetOp(key, content, header, ttl) ==
    [NoOp EXCEPT !.kind = "Set", !.key = key, !.content = content,
                 !.header = header, !.ttl = ttl]

\* the frame of a call Get(key); overlap: a Set of the same key is under way
GetOp(key) ==
    [NoOp EXCEPT !.kind = "Get", !.key = key,
                 !.overlap = \E q \in Procs : /\ op[q].kind = "Set" /\ op[q].key = key
                                               /\ pc[q] \in {"set_lock", "set_store"}]

\* NewSimpleCache(), no goroutine in a call, the clock at 0
CacheInit ==
    /\ now = 0
    /\ mu = 0
    /\ store = << >>
    /\ writing = {}
    /\ corrupt = FALSE
    /\ pc = [p \in Procs |-> "idle"]
    /\ op = [p \in Procs |-> NoOp]
    /\ calls = 0
    /\ lastSet = [k \in Keys |-> NoHistory]

\* goroutine p is at a step of the handler that touches nothing but its own
\* request, sink and capture. Such steps commute with every step of another
\* goroutine and with the clock, so they are taken first, one goroutine
\* after the other.
Local(p) ==
    \/ pc[p] \in {"proxy", "proxy_body"}
    \/ pc[p] = "ret" /\ op[p].kind = "Get" /\ req[p].method # ""

\* no goroutine is at such a step
Quiet == \A p \in Procs : ~Local(p)

\* p is the first goroutine at such a step
Turn(p) == \A q \in Procs : q < p => ~Local(q)

\* SimpleCache.Set: c.mu.Lock() is passed, the item is built with
\* time.Now() read, and the assignment to the map begins
SetLock(p) ==
    /\ pc[p] = "set_lock"
    /\ Quiet
    /\ Lock(p)
    /\ op' = [op EXCEPT ![p].item = NewCacheItem(op[p].content, op[p].header,
                                                  TimeAt(now), op[p].ttl),
                         ![p].at = now]
    /\ writing' = writing \cup {p}
    /\ corrupt' = (corrupt \/ writing # {})
    /\ pc' = [pc EXCEPT ![p] = "set_store"]
    /\ UNCHANGED <<now, store, calls, lastSet, codecVars, handlerVars, redisVars>>

\* SimpleCache.Set: the assignment c.store[key] = item completes, the
\* deferred c.mu.Unlock() runs and Set returns
SetStore(p) ==
    LET k   == op[p].key
        exp == op[p].at + op[p].ttl
        old == lastSet[k]
        e   == [present   |-> TRUE,
                item      |-> CacheItem(op[p].content, op[p].header, TimeAt(exp)),
                replaced  |-> old.present,
                shortened |-> old.present /\ old.item.content # op[p].content
                              /\ exp < old.item.expiration.sec,
                revived   |-> old.present /\ old.item.expiration.sec < op[p].at]
    IN  /\ pc[p] = "set_store"
        /\ Quiet
        /\ store' = MapAssign(store, k, op[p].item)
        /\ writing' = writing \ {p}
        /\ lastSet' = [lastSet EXCEPT ![k] = e]
        /\ Unlock(p)
        /\ op' = [op EXCEPT ![p] = [NoOp EXCEPT !.kind = "Set", !.key = k]]
        /\ pc' = [pc EXCEPT ![p] = "ret"]
        /\ UNCHANGED <<now, corrupt, calls, codecVars, handlerVars, redisVars>>

\* SimpleCache.Get: c.mu.Lock() is passed, then the lookup and the
\* expiration test against time.Now(). A lookup during another goroutine's
\* write is a data race.
GetLock(p) ==
    /\ pc[p] = "get_lock"
    /\ Quiet
    /\ Lock(p)
    /\ \E entry \in IF writing = {} THEN {Lookup(store, op[p].key)}
                     ELSE UNION { RacyReads(Lookup(store, op[p].key), w) : w \in writing } :
          LET r == GetResult(entry, TimeAt(now))
          IN  op' = [op EXCEPT ![p].found = r.found, ![p].item = r.item,
                               ![p].seen = lastSet[op[p].key],
                               ![p].rel = Relation(lastSet[op[p].key], now),
                               ![p].whole = (entry \in WholeEntries(op[p].key))]
    /\ store' = StoreAfterGet(store, op[p].key, TimeAt(now))
    /\ corrupt' = (corrupt \/ writing # {})
    /\ pc' = [pc EXCEPT ![p] = "get_unlock"]
    /\ UNCHANGED <<now, writing, calls, lastSet, codecVars, handlerVars, redisVars>>

\* SimpleCache.Get: the deferred c.mu.Unlock(), and the return, on either
\* return path
GetUnlock(p) ==
    /\ pc[p] = "get_unlock"
    /\ Quiet
    /\ Unlock(p)
    /\ pc' = [pc EXCEPT ![p] = "ret"]
    /\ UNCHANGED <<now, store, writing, corrupt, op, calls, lastSet, codecVars, handlerVars, redisVars>>

\* goroutine p is in a Get that has made its decision
GetDone(p) == op[p].kind = "Get" /\ pc[p] \in {"get_unlock", "ret"}

\* the steps of SimpleCache's two methods
CacheStep(p) ==
    \/ SetLock(p) \/ SetStore(p)
    \/ GetLock(p) \/ GetUnlock(p)

\* time passes
Tick ==
    /\ Quiet
    /\ now < MaxTime
    /\ now' = now + 1
    /\ UNCHANGED <<mu, store, writing, corrupt, pc, op, calls, lastSet, codecVars, handlerVars, redisVars>>

-----------------------------------------------------------------------------
(* RedisCache over a key-value backend.                                    *)

\* a RedisCache call that has sent no command
NoRedisCall ==
    [reads |-> 0, writes |-> 0, reply |-> "none", derr |-> FALSE,
     taken |-> FALSE, after |-> [last |-> "none", ever |-> FALSE]]

\* no SET was sent for a key
NeverWritten == [last |-> "none", ever |-> FALSE]

\* NewRedisCache: a client of a backend holding no key, no call under way
RedisIdle ==
    /\ backend = << >>
    /\ rcall = [p \in Procs |-> NoRedisCall]
    /\ tampered = FALSE
    /\ written = [k \in Keys |-> NeverWritten]

\* the backend holds key at instant t: it was set and has not expired
BackendHolds(key, t) ==
    /\ key \in DOMAIN backend
    /\ ~backend[key].volatile \/ t <= backend[key].expires

\* SET key value with the expiry the client derives from ttl: EX/PX when
\* ttl > 0, none otherwise
BackendSet(key, value, ttl, t) ==
    [k \in DOMAIN backend \cup {key} |->
        IF k = key
        THEN [value |-> value, volatile |-> ttl > 0,
              expires |-> IF ttl > 0 THEN t + ttl ELSE 0]
        ELSE backend[k]]

\* a SET that changes the backend although it reports an error
BackendAfterSetAlways(key, value, ttl, t, taken) == BackendSet(key, value, ttl, t)

\* the backend after r.client.Set(...): changed when the command was taken,
\* as it was when the command failed
BackendAfterSet(key, value, ttl, t, taken) ==
    IF taken THEN BackendSet(key, value, ttl, t) ELSE backend

\* the replies r.client.Get(ctx, key).Result() can give: redis.Nil for a key
\* the backend does not hold, the value of one it holds, or another error
\* (connection, timeout, protocol) at any time
GetReplies(key, t) ==
    { [kind |-> "error", value |-> << >>] } \cup
    ( IF BackendHolds(key, t)
      THEN { [kind |-> "value", value |-> backend[key].value] }
      ELSE { [kind |-> "nil", value |-> << >>] } )

\* a Get that takes what the decoder left behind for an entry
GetReturnIgnoresDecodeError(reply) ==
    IF reply.kind # "value" THEN [item |-> EmptyItem, found |-> FALSE]
    ELSE [item |-> decodeCacheItem(reply.value).item, found |-> TRUE]

\* RedisCache.Get after the read: (nil, false) on redis.Nil and on any other
\* error, (nil, false) when decodeCacheItem fails, else (cacheItem, true)
GetReturn(reply) ==
    IF reply.kind # "value" THEN [item |-> EmptyItem, found |-> FALSE]
    ELSE LET d == decodeCacheItem(reply.value)
         IN  IF d.err THEN [item |-> EmptyItem, found |-> FALSE]
             ELSE [item |-> d.item, found |-> TRUE]

\* RedisCache.Set: the item, content and header only, is encoded, the error
\* of encodeCacheItem dropped, and SET is sent; its error is dropped too, so
\* the call returns the same way whether the backend took the value or not
RedisSet(p) ==
    /\ pc[p] = "redis_set"
    /\ Quiet
    /\ \E order \in Orders(DOMAIN op[p].header), taken \in BOOLEAN :
          LET enc == encodeCacheItem(CacheItem(op[p].content, op[p].header, ZeroTime), order)
              itemBytes == IF enc.err THEN << >> ELSE enc.data
          IN  /\ backend' = BackendAfterSet(op[p].key, itemBytes, op[p].ttl, now, taken)
              /\ rcall' = [rcall EXCEPT ![p] = [NoRedisCall EXCEPT !.writes = rcall[p].writes + 1,
                                                              !.taken = taken]]
              /\ written' = [written EXCEPT ![op[p].key] =
                                [last |-> IF taken THEN "ok" ELSE "failed",
                                 ever |-> @.ever \/ taken]]
    /\ op' = [op EXCEPT ![p] = [NoOp EXCEPT !.kind = "Set", !.key = op[p].key]]
    /\ pc' = [pc EXCEPT ![p] = "ret"]
    /\ UNCHANGED <<now, mu, store, writing, corrupt, calls, lastSet, tampered,
                   codecVars, handlerVars>>

\* RedisCache.Get: GET is sent, and the reply decides the return
RedisGet(p) ==
    /\ pc[p] = "redis_get"
    /\ Quiet
    /\ \E reply \in GetReplies(op[p].key, now) :
          LET r == GetReturn(reply)
          IN  /\ op' = [op EXCEPT ![p].found = r.found, ![p].item = r.item]
              /\ rcall' = [rcall EXCEPT ![p].reads = @ + 1, ![p].reply = reply.kind,
                                        ![p].after = written[op[p].key],
                                        ![p].derr = (reply.kind = "value"
                                                     /\ decodeCacheItem(reply.value).err)]
    /\ pc' = [pc EXCEPT ![p] = "ret"]
    /\ UNCHANGED <<now, mu, store, writing, corrupt, calls, lastSet, backend, tampered,
                   written, codecVars, handlerVars>>

\* the lengths to which a value may be cut: to half, by its last four
\* characters, by its last character
Cuts(value) ==
    { n \in {Len(value) \div 2, Len(value) - 4, Len(value) - 1} : n >= 0 /\ n < Len(value) }

\* another client of the backend overwrites a value with a prefix of it
Tamper ==
    /\ ~tampered
    /\ \E k \in DOMAIN backend : \E n \in Cuts(backend[k].value) :
          backend' = [backend EXCEPT ![k].value = Take(@, n)]
    /\ tampered' = TRUE
    /\ UNCHANGED <<rcall, written, cacheVars, codecVars, handlerVars>>

-----------------------------------------------------------------------------
(* The request handler, the response capture and the origin.               *)

\* the response sink before anything is written: status 0 is "not written",
\* header is the map w.Header() returns, sent the headers that went out
NewSink == [status |-> 0, header |-> << >>, sent |-> << >>, body |-> << >>]

\* &CacheResponseWriter{ResponseWriter: w, buf: new(bytes.Buffer)}
\* the field header is left nil
NewCrw == [buf |-> << >>, header |-> << >>, status |-> 0]

\* no call made on the CacheResponseWriter
NoCall == [kind |-> "none", status |-> 0, bytes |-> << >>, accepted |-> 0]

\* a goroutine with no request
NoReq ==
    [method |-> "", url |-> "", wrapped |-> FALSE,
     resp |-> [status |-> 0, header |-> << >>, body |-> << >>], left |-> << >>,
     origin |-> 0, gets |-> 0, sets |-> 0]

\* no request is being handled
HandlerIdle ==
    /\ configTTL = 0
    /\ cacheType = "memory"
    /\ wcall = NoCall
    /\ req = [p \in Procs |-> NoReq]
    /\ sink = [p \in Procs |-> NewSink]
    /\ crw = [p \in Procs |-> NewCrw]

\* ASCII upper and lower case of a byte
Upper(c) == IF c >= 97 /\ c <= 122 THEN c - 32 ELSE c
Lower(c) == IF c >= 65 /\ c <= 90 THEN c + 32 ELSE c

\* textproto.CanonicalMIMEHeaderKey, which Header.Add applies to the key:
\* the first letter and every letter after a hyphen upper case, the rest lower
CanonicalKey(key) ==
    [i \in 1..Len(key) |->
        IF i = 1 \/ key[i - 1] = 45 THEN Upper(key[i]) ELSE Lower(key[i])]

\* h.Add(key, value)
HeaderAdd(h, key, value) ==
    LET k == CanonicalKey(key)
    IN  PutHeader(h, k, IF k \in DOMAIN h THEN Append(h[k], value) ELSE <<value>>)

\* for _, value := range values { w.Header().Add(key, value) }
RECURSIVE AddValues(_, _, _)
AddValues(h, key, values) ==
    IF values = << >> THEN h
    ELSE AddValues(HeaderAdd(h, key, values[1]), key, Tail(values))

\* for key, values := range src { ... Add ... }: the result is the same for
\* every iteration order, the keys being distinct
RECURSIVE AddAll(_, _)
AddAll(h, src) ==
    IF DOMAIN src = {} THEN h
    ELSE LET key == CHOOSE k \in DOMAIN src : TRUE
         IN  AddAll(AddValues(h, key, src[key]),
                    [k \in DOMAIN src \ {key} |-> src[k]])

\* w.WriteHeader(status) on the real sink: the first status stands, and the
\* header map as it is then is what goes out
SinkWriteHeader(w, status) ==
    IF w.status = 0 THEN [w EXCEPT !.status = status, !.sent = w.header] ELSE w

\* a Write that sets no status
SinkWriteNoStatus(w, b) == [w EXCEPT !.body = @ \o b]

\* w.Write(b) on the real sink: an implicit WriteHeader(200), then the bytes
SinkWrite(w, b) == [SinkWriteHeader(w, 200) EXCEPT !.body = @ \o b]

\* CacheResponseWriter.WriteHeader: w.status = status
CrwWriteHeader(c, status) == [c EXCEPT !.status = status]

\* a Write that passes the bytes on and keeps none
CrwWriteKeepsNothing(c, b) == c

\* CacheResponseWriter.Write: w.buf.Write(b)
CrwWrite(c, b) == [c EXCEPT !.buf = @ \o b]

\* cacheKey := r.URL.String()
CacheKey(url) == url

\* IsGet that takes every method for GET
IsGetAlways(method) == TRUE

\* r.Method == "GET"
IsGet(method) == method = "GET"

\* the hit path with the header loop left out
HitResponseNoHeader(w, item) == SinkWrite(w, item.content)

\* the hit path: the stored headers are added to w.Header(), then
\* w.Write(cachedItem.content)
HitResponse(w, item) ==
    SinkWrite([w EXCEPT !.header = AddAll(@, item.header)], item.content)

\* the statuses the origin answers with
Statuses == {200, 500}

\* the body the origin sends for the n-th request: two bytes, the first the
\* request's own, the second another on an error page
ResponseBody(n, status) == << 96 + n, IF status = 200 THEN 64 + n ELSE 33 >>

\* the header the origin sends for the n-th request
ResponseHeader(n) == [k \in { <<88>> } |-> << << 48 + n >> >>]

\* the pieces in which the proxy hands a body to Write: byte by byte
Chunks(body) == [i \in 1..Len(body) |-> <<body[i]>>]

\* the values of config.TTL drawn, in ticks of the clock
ConfigTTLs == {0, 1}

\* cache.Get(...) on the Cache main constructed: RedisCache when
\* config.CacheType is "redis", SimpleCache otherwise
GetEntry(type) == IF type = "redis" THEN "redis_get" ELSE "get_lock"

\* cache.Set(...) on the Cache main constructed
SetEntry(type) == IF type = "redis" THEN "redis_set" ELSE "set_lock"

\* a goroutine can take a request: it has none, or is done with one
HandlerFree(p) ==
    /\ pc[p] \in {"idle", "done"} \/ (pc[p] = "ret" /\ op[p].kind = "Set")
    /\ \A q \in Procs :
          q < p => ~(pc[q] \in {"idle", "done"} \/ (pc[q] = "ret" /\ op[q].kind = "Set"))

\* a request arrives: if r.Method == "GET" { cache.Get(cacheKey) }
\* else { proxy.ServeHTTP(w, r) }
Request(p) ==
    /\ HandlerFree(p)
    /\ Quiet
    /\ calls < MaxRequests
    /\ calls' = calls + 1
    /\ \E method \in {"GET", "POST"}, url \in Keys :
          /\ req' = [req EXCEPT ![p] = [NoReq EXCEPT !.method = method, !.url = url,
                                            !.gets = IF IsGet(method) THEN 1 ELSE 0]]
          /\ IF IsGet(method)
             THEN /\ op' = [op EXCEPT ![p] = GetOp(CacheKey(url))]
                  /\ pc' = [pc EXCEPT ![p] = GetEntry(cacheType)]
             ELSE /\ op' = [op EXCEPT ![p] = NoOp]
                  /\ pc' = [pc EXCEPT ![p] = "proxy"]
    /\ sink' = [sink EXCEPT ![p] = NewSink]
    /\ crw' = [crw EXCEPT ![p] = NewCrw]
    /\ rcall' = [rcall EXCEPT ![p] = NoRedisCall]
    /\ UNCHANGED <<now, mu, store, writing, corrupt, lastSet, configTTL, cacheType, wcall, codecVars,
                   backend, tampered, written>>

\* cache.Get returned found: the stored headers and body are written, return
ServeHit(p) ==
    /\ pc[p] = "ret" /\ op[p].kind = "Get" /\ op[p].found
    /\ Turn(p)
    /\ sink' = [sink EXCEPT ![p] = HitResponse(@, op[p].item)]
    /\ pc' = [pc EXCEPT ![p] = "done"]
    /\ UNCHANGED <<now, mu, store, writing, corrupt, op, calls, lastSet, configTTL, cacheType, wcall, req, crw, codecVars, redisVars>>

\* cache.Get returned not found: crw wraps w and proxy.ServeHTTP(crw, r) is called
ServeMiss(p) ==
    /\ pc[p] = "ret" /\ op[p].kind = "Get" /\ ~op[p].found
    /\ Turn(p)
    /\ crw' = [crw EXCEPT ![p] = NewCrw]
    /\ req' = [req EXCEPT ![p].wrapped = TRUE]
    /\ pc' = [pc EXCEPT ![p] = "proxy"]
    /\ UNCHANGED <<now, mu, store, writing, corrupt, op, calls, lastSet, configTTL, cacheType, wcall, sink, codecVars, redisVars>>

\* proxy.ServeHTTP: the origin is contacted and answers; its headers are
\* added to the sink's header and WriteHeader(status) is called, through crw
\* when the sink is wrapped
ProxyHeader(p) ==
    /\ pc[p] = "proxy"
    /\ Turn(p)
    /\ \E status \in Statuses :
          /\ req' = [req EXCEPT ![p].resp = [status |-> status,
                                             header |-> ResponseHeader(calls),
                                             body |-> ResponseBody(calls, status)],
                                 ![p].left = Chunks(ResponseBody(calls, status)),
                                 ![p].origin = @ + 1]
          /\ sink' = [sink EXCEPT ![p] =
                         SinkWriteHeader([@ EXCEPT !.header = AddAll(@, ResponseHeader(calls))],
                                         status)]
          /\ crw' = IF req[p].wrapped
                    THEN [crw EXCEPT ![p] = CrwWriteHeader(@, status)] ELSE crw
    /\ pc' = [pc EXCEPT ![p] = "proxy_body"]
    /\ UNCHANGED <<now, mu, store, writing, corrupt, op, calls, lastSet, configTTL, cacheType, wcall, codecVars, redisVars>>

\* proxy.ServeHTTP: the next piece of the body is written, through crw when
\* the sink is wrapped
ProxyWrite(p) ==
    /\ pc[p] = "proxy_body"
    /\ req[p].left # << >>
    /\ Turn(p)
    /\ sink' = [sink EXCEPT ![p] = SinkWrite(@, Head(req[p].left))]
    /\ crw' = IF req[p].wrapped
              THEN [crw EXCEPT ![p] = CrwWrite(@, Head(req[p].left))] ELSE crw
    /\ req' = [req EXCEPT ![p].left = Tail(@)]
    /\ UNCHANGED <<now, mu, store, writing, corrupt, pc, op, calls, lastSet, configTTL, cacheType, wcall, codecVars, redisVars>>

ProxyDoneEarly(p) == TRUE

\* proxy.ServeHTTP returns when the whole response has been written
ProxyDone(p) == req[p].left = << >>

\* proxy.ServeHTTP(crw, r) returned:
\* cache.Set(cacheKey, crw.buf.Bytes(), crw.Header(), ttl) is called
ProxyReturnSet(p) ==
    /\ pc[p] = "proxy_body"
    /\ ProxyDone(p)
    /\ req[p].wrapped
    /\ Turn(p)
    /\ op' = [op EXCEPT ![p] = SetOp(CacheKey(req[p].url), crw[p].buf,
                                      sink[p].header, configTTL)]
    /\ req' = [req EXCEPT ![p].sets = @ + 1]
    /\ pc' = [pc EXCEPT ![p] = SetEntry(cacheType)]
    /\ UNCHANGED <<now, mu, store, writing, corrupt, calls, lastSet, configTTL, cacheType, wcall, sink, crw, codecVars, redisVars>>

\* proxy.ServeHTTP(w, r) returned, the method not being GET: the handler returns
ProxyReturn(p) ==
    /\ pc[p] = "proxy_body"
    /\ ProxyDone(p)
    /\ ~req[p].wrapped
    /\ Turn(p)
    /\ pc' = [pc EXCEPT ![p] = "done"]
    /\ UNCHANGED <<now, mu, store, writing, corrupt, op, calls, lastSet, configTTL, cacheType, wcall, req, sink, crw, codecVars, redisVars>>

\* main: loadConfig, NewSimpleCache, the handler registered
Init ==
    /\ CacheInit
    /\ CodecIdle
    /\ RedisIdle
    /\ configTTL \in ConfigTTLs
    /\ cacheType = "memory"
    /\ wcall = NoCall
    /\ req = [p \in Procs |-> NoReq]
    /\ sink = [p \in Procs |-> NewSink]
    /\ crw = [p \in Procs |-> NewCrw]

Next ==
    \/ \E p \in Procs : Request(p)
    \/ \E p \in Procs : CacheStep(p)
    \/ \E p \in Procs : ServeHit(p)
    \/ \E p \in Procs : ServeMiss(p)
    \/ \E p \in Procs : ProxyHeader(p)
    \/ \E p \in Procs : ProxyWrite(p)
    \/ \E p \in Procs : ProxyReturnSet(p)
    \/ \E p \in Procs : ProxyReturn(p)
    \/ Tick

Spec == Init /\ [][Next]_vars

-----------------------------------------------------------------------------
(* Properties of the request handler over SimpleCache.                     *)

\* goroutine p handles a GET and its cache.Get has made its decision
Looked(p) ==
    /\ req[p].method = "GET" /\ op[p].kind = "Get"
    /\ pc[p] \in {"get_unlock", "ret", "done"}

\* cache.Set has been called for the request goroutine p is serving
SetCalled(p) == req[p].sets > 0

\* the whole response of the origin has reached the sink of goroutine p
ResponseForwarded(p) ==
    /\ req[p].origin = 1
    /\ req[p].left = << >>
    /\ sink[p].status = req[p].resp.status
    /\ sink[p].sent = AddAll(<< >>, req[p].resp.header)
    /\ sink[p].body = req[p].resp.body

\* C16: on a GET miss cache.Set is called only after proxy.ServeHTTP has
\* returned: when Set is called the status, the headers and the whole body
\* have been written to the client's sink, no Set is called before or between
\* the writes of a response, and nothing is written to the sink once Set has
\* been called.
C16_SetAfterResponse ==
    /\ [](\A p \in Procs :
             /\ SetCalled(p) => (req[p].wrapped /\ ResponseForwarded(p))
             /\ (pc[p] \in {"proxy", "proxy_body"}) => ~SetCalled(p))
    /\ [][\A p \in Procs :
             /\ (req'[p].sets > req[p].sets) =>
                    (pc[p] = "proxy_body" /\ ResponseForwarded(p) /\ sink'[p] = sink[p])
             /\ (SetCalled(p) /\ SetCalled(p)') => sink'[p] = sink[p]]_vars

C16_Witness ==
    \E p \in Procs :
        /\ SetCalled(p) /\ pc[p] = "ret" /\ op[p].kind = "Set"
        /\ Len(sink[p].body) = 2 /\ sink[p].status = 500
        /\ store[op[p].key].content = sink[p].body

\* goroutine p completes its Set in this step
SetCompletes(p) == pc[p] = "set_store" /\ pc'[p] = "ret"

\* the entry the handler asks Set to store for the request of goroutine p
RequestEntry(p) ==
    CacheItem(crw[p].buf, sink[p].header, TimeAdd(TimeAt(op[p].at), configTTL))

\* C17: requests are not coalesced: two concurrent GETs of one URL that both
\* miss both contact the origin and both call Set. Each completing Set
\* replaces the entry of its key by the body, headers and expiration of its
\* own request and nothing else changes the map, so the entry held is the one
\* of the Set that completed last; no access to the map overlaps another, and
\* a goroutine waiting for the lock waits for one that is about to release it.
C17_LastSetWins ==
    /\ [](/\ ~corrupt
          /\ \A p \in Procs :
                (pc[p] \in {"set_lock", "get_lock"} /\ mu # 0) =>
                    pc[mu] \in {"set_store", "get_unlock"})
    /\ [][(\A p \in Procs :
                SetCompletes(p) =>
                    /\ DOMAIN store' = DOMAIN store \cup {CacheKey(req[p].url)}
                    /\ \A k \in DOMAIN store' :
                          store'[k] = IF k = CacheKey(req[p].url)
                                      THEN RequestEntry(p) ELSE store[k])
           /\ ((store' # store) => \E p \in Procs : SetCompletes(p))]_vars

C17_Witness ==
    \E p, q \in Procs :
        /\ p # q /\ req[p].url = req[q].url
        /\ configTTL = 1 /\ now = 0
        /\ \A x \in {p, q} :
              /\ req[x].method = "GET" /\ req[x].origin = 1 /\ req[x].sets = 1
              /\ pc[x] = "ret" /\ op[x].kind = "Set"
        /\ crw[p].buf # crw[q].buf
        /\ store[CacheKey(req[p].url)].content = crw[q].buf

\* the fields of a CacheItem
CacheItemFields == {"content", "header", "expiration"}

\* goroutine p has served its request from the cache
HitServed(p) ==
    pc[p] = "done" /\ req[p].method = "GET" /\ op[p].kind = "Get" /\ op[p].found

\* C20: the status of a cached response is not replayed: an entry holds
\* content, header and expiration and nothing else, a hit is served with
\* status 200 whatever status the miss that stored the entry delivered, and
\* a request served from the cache has no capture decorator whose status
\* could be read.
C20_HitStatusIs200 ==
    /\ \A k \in DOMAIN store : DOMAIN store[k] = CacheItemFields
    /\ \A p \in Procs :
          HitServed(p) =>
              /\ sink[p].status = 200
              /\ crw[p] = NewCrw
              /\ DOMAIN op[p].item = CacheItemFields

C20_Witness ==
    \E p, q \in Procs :
        /\ req[p].sets = 1 /\ sink[p].status = 500
        /\ HitServed(q) /\ req[q].url = req[p].url
        /\ sink[q].body = sink[p].body
        /\ sink[q].status = 200

\* CACHE_SIZE as set in the environment the program is started with
CacheSizeEnv == 1

\* C15: CACHE_SIZE is the maximum number of cache entries: after any
\* sequence of requests the in-memory cache holds no more entries than
\* CACHE_SIZE.
C15_StoreWithinCacheSize == Cardinality(DOMAIN store) <= CacheSizeEnv

\* C1: after a GET for u missed, was proxied and completed with whatever
\* status, a GET for the same URL whose Get reads the clock before the TTL
\* has elapsed, no other Set on u in between, is served from the cache with
\* the body and the headers captured from that response, and the origin is
\* not contacted. What a miss hands to Set under key u is the body and the
\* headers of the origin's response, whatever its status; the Get of a later
\* GET for u before the expiration finds what the last Set on u stored; the
\* request then ends with that body and those headers sent and no contact.
C1_SecondGetServedFromCache ==
    \A p \in Procs :
        /\ (op[p].kind = "Set" /\ pc[p] \in {"set_lock", "set_store"}) =>
               /\ req[p].method = "GET" /\ req[p].origin = 1
               /\ op[p].key = req[p].url
               /\ op[p].content = req[p].resp.body
               /\ op[p].header = req[p].resp.header
               /\ op[p].ttl = configTTL
        /\ (Looked(p) /\ op[p].rel = "before") =>
               /\ op[p].key = req[p].url
               /\ op[p].found
               /\ op[p].item = op[p].seen.item
               /\ req[p].origin = 0
               /\ pc[p] = "done" =>
                      /\ sink[p].body = op[p].seen.item.content
                      /\ sink[p].sent = op[p].seen.item.header

\* C1 witness: the first request, a GET for /foo?x=1, was answered 500 by
\* the origin; the second, a GET for the same URL, has been served that
\* body and those headers without a contact to the origin
C1_Witness ==
    \E p \in Procs :
        /\ configTTL > 0
        /\ pc[p] = "done" /\ Looked(p) /\ op[p].rel = "before"
        /\ req[p].url = "/foo?x=1" /\ calls = 2
        /\ req[p].origin = 0
        /\ sink[p].body = ResponseBody(1, 500)
        /\ sink[p].sent = ResponseHeader(1)

\* C2: for every GET whose cache.Get returned found=true the stored headers
\* and then the stored body are written to the client as they are and the
\* handler returns; the origin is not contacted, the sink is not wrapped
\* and Set is not called in that request.
C2_HitWritesStoredEntry ==
    \A p \in Procs :
        (req[p].method = "GET" /\ op[p].kind = "Get" /\ op[p].found
           /\ pc[p] \in {"ret", "done"}) =>
            /\ req[p].origin = 0 /\ req[p].sets = 0 /\ ~req[p].wrapped
            /\ crw[p] = NewCrw
            /\ pc[p] = "ret" => sink[p] = NewSink
            /\ pc[p] = "done" =>
                   /\ sink[p].sent = op[p].item.header
                   /\ sink[p].body = op[p].item.content

\* C2 witness: a hit has been served, its headers and its two-byte body out
C2_Witness ==
    \E p \in Procs :
        /\ pc[p] = "done" /\ req[p].method = "GET" /\ op[p].found
        /\ Len(sink[p].body) = 2
        /\ DOMAIN sink[p].sent # {}
        /\ sink[p].status = 200

\* goroutine p takes a step of a request that is not a GET
NonGetStep(p) ==
    /\ req'[p].method \notin {"", "GET"}
    /\ <<pc[p], req[p], sink[p]>> # <<pc'[p], req'[p], sink'[p]>>

\* C3: a request whose method is not GET goes to the origin with the
\* unwrapped sink and does neither Get nor Set: none of its steps changes
\* the cache, whatever earlier GETs stored for the URL.
C3_NonGetBypassesCache ==
    /\ [](\A p \in Procs :
            req[p].method \notin {"", "GET"} =>
                /\ req[p].gets = 0 /\ req[p].sets = 0 /\ ~req[p].wrapped
                /\ op[p] = NoOp /\ crw[p] = NewCrw
                /\ pc[p] \in {"proxy", "proxy_body", "done"}
                /\ pc[p] = "done" =>
                       /\ req[p].origin = 1
                       /\ sink[p].body = req[p].resp.body
                       /\ sink[p].sent = req[p].resp.header
                       /\ sink[p].status = req[p].resp.status)
    /\ [][\A p \in Procs :
             NonGetStep(p) => <<store, mu, writing, lastSet>>' = <<store, mu, writing, lastSet>>]_vars

\* C3 witness: a POST to /foo has been answered by the origin while the
\* cache holds what an earlier GET for /foo stored
C3_Witness ==
    \E p \in Procs :
        /\ req[p].method = "POST" /\ req[p].url = "/foo" /\ pc[p] = "done"
        /\ req[p].origin = 1
        /\ lastSet["/foo"].present
        /\ store["/foo"].content = ResponseBody(1, 200)
        /\ sink[p].body = ResponseBody(2, 200)

-----------------------------------------------------------------------------
(* CacheResponseWriter used on its own, as TestCacheResponseWriter does:   *)
(* any sequence of WriteHeader, Write and Header().Add on crw 1 over a     *)
(* sink that may take fewer bytes than it is handed.                       *)

\* the byte slices handed to Write
WriteChunks == { <<72>>, <<72, 105>> }

\* w.ResponseWriter.Write(b) returning (n, err) with n < len(b): the first n
\* bytes went out
SinkWriteSome(w, b, n) == SinkWrite(w, Take(b, n))

\* crw.WriteHeader(status)
CaptureWriteHeader ==
    /\ calls < MaxWrites
    /\ calls' = calls + 1
    /\ \E status \in Statuses :
          /\ crw' = [crw EXCEPT ![1] = CrwWriteHeader(@, status)]
          /\ sink' = [sink EXCEPT ![1] = SinkWriteHeader(@, status)]
          /\ wcall' = [NoCall EXCEPT !.kind = "WriteHeader", !.status = status]
    /\ UNCHANGED <<now, mu, store, writing, corrupt, pc, op, lastSet, configTTL, cacheType, req,
                   codecVars, redisVars>>

\* crw.Write(b), the sink taking n of the bytes
CaptureWrite ==
    /\ calls < MaxWrites
    /\ calls' = calls + 1
    /\ \E b \in WriteChunks : \E n \in 0..Len(b) :
          /\ crw' = [crw EXCEPT ![1] = CrwWrite(@, b)]
          /\ sink' = [sink EXCEPT ![1] = SinkWriteSome(@, b, n)]
          /\ wcall' = [NoCall EXCEPT !.kind = "Write", !.bytes = b, !.accepted = n]
    /\ UNCHANGED <<now, mu, store, writing, corrupt, pc, op, lastSet, configTTL, cacheType, req,
                   codecVars, redisVars>>

\* crw.Header().Add(key, value): Header() hands out the sink's own map
CaptureHeaderAdd ==
    /\ calls < MaxWrites
    /\ calls' = calls + 1
    /\ \E key \in { <<120>>, <<121>> } :
          sink' = [sink EXCEPT ![1].header = HeaderAdd(@, key, <<49>>)]
    /\ wcall' = [NoCall EXCEPT !.kind = "Header"]
    /\ UNCHANGED <<now, mu, store, writing, corrupt, pc, op, lastSet, configTTL, cacheType, req,
                   crw, codecVars, redisVars>>

CaptureInit == CacheInit /\ CodecIdle /\ HandlerIdle /\ RedisIdle

CaptureNext ==
    \/ CaptureWriteHeader
    \/ CaptureWrite
    \/ CaptureHeaderAdd

SpecCapture == CaptureInit /\ [][CaptureNext]_vars

\* C12: for any sequence of Write calls through CacheResponseWriter, each
\* call hands its bytes unchanged to the real sink, and the buffer equals
\* the concatenation, in order, of the bytes that were sent to the client,
\* also when the sink reports an error or takes fewer bytes than handed.
C12_BufferEqualsSent ==
    /\ crw[1].buf = sink[1].body
    /\ wcall.kind = "Write" =>
          /\ Len(crw[1].buf) >= Len(wcall.bytes)
          /\ Drop(crw[1].buf, Len(crw[1].buf) - Len(wcall.bytes)) = wcall.bytes

\* C13: every WriteHeader(s) on CacheResponseWriter is handed to the real
\* sink with the same s and the recorded status equals s afterwards; header
\* calls are forwarded, and the header set the decorator has recorded
\* equals the header set sent to the client.
C13_StatusAndHeaderRecorded ==
    /\ wcall.kind = "WriteHeader" =>
          /\ crw[1].status = wcall.status
          /\ sink[1].status # 0
          /\ calls = 1 => sink[1].status = wcall.status
    /\ sink[1].status # 0 => crw[1].header = sink[1].sent

-----------------------------------------------------------------------------
(* SimpleCache called directly, as TestSimpleCache does, by concurrent     *)
(* goroutines with any key, payload and time-to-live.                      *)

\* the payload of the n-th call: a body of its own, and a header X of its
\* own on odd calls, none on even calls
Payload(n) ==
    [content |-> << 96 + n >>,
     header  |-> IF n % 2 = 1 THEN [k \in { <<88>> } |-> << << 48 + n >> >>] ELSE << >>]

\* goroutines are interchangeable: a new call is made by the first goroutine
\* that is in no call
Free(p) ==
    /\ pc[p] \in {"idle", "ret"}
    /\ \A q \in Procs : q < p => pc[q] \notin {"idle", "ret"}

\* cache.Set(key, content, header, ttl) is called
StoreSet(p) ==
    /\ Free(p)
    /\ calls < MaxCalls
    /\ calls' = calls + 1
    /\ \E k \in Keys, ttl \in TTLs :
          op' = [op EXCEPT ![p] = SetOp(k, Payload(calls').content, Payload(calls').header, ttl)]
    /\ pc' = [pc EXCEPT ![p] = "set_lock"]
    /\ UNCHANGED <<now, mu, store, writing, corrupt, lastSet, codecVars, handlerVars, redisVars>>

\* cache.Get(key) is called
StoreGet(p) ==
    /\ Free(p)
    /\ calls < MaxCalls
    /\ calls' = calls + 1
    /\ \E k \in Keys : op' = [op EXCEPT ![p] = GetOp(k)]
    /\ pc' = [pc EXCEPT ![p] = "get_lock"]
    /\ UNCHANGED <<now, mu, store, writing, corrupt, lastSet, codecVars, handlerVars, redisVars>>

StoreInit == CacheInit /\ CodecIdle /\ HandlerIdle /\ RedisIdle

StoreNext ==
    \/ \E p \in Procs : StoreSet(p)
    \/ \E p \in Procs : StoreGet(p)
    \/ \E p \in Procs : CacheStep(p)
    \/ Tick

SpecStore == StoreInit /\ [][StoreNext]_vars

-----------------------------------------------------------------------------
(* SimpleCache under a fair scheduler: goroutines call Set and Get on one   *)
(* key with entries that expire at once, so that a Get takes each of its    *)
(* return paths (no entry, entry at its expiration instant, entry expired). *)

\* cache.Set("/foo", content, header, 0) is called
FairSet(p) ==
    /\ Free(p)
    /\ calls < MaxCalls
    /\ calls' = calls + 1
    /\ op' = [op EXCEPT ![p] = SetOp("/foo", Payload(1).content, Payload(1).header, 0)]
    /\ pc' = [pc EXCEPT ![p] = "set_lock"]
    /\ UNCHANGED <<now, mu, store, writing, corrupt, lastSet, codecVars, handlerVars, redisVars>>

\* cache.Get("/foo") is called
FairGet(p) ==
    /\ Free(p)
    /\ calls < MaxCalls
    /\ calls' = calls + 1
    /\ op' = [op EXCEPT ![p] = GetOp("/foo")]
    /\ pc' = [pc EXCEPT ![p] = "get_lock"]
    /\ UNCHANGED <<now, mu, store, writing, corrupt, lastSet, codecVars, handlerVars, redisVars>>

FairNext ==
    \/ \E p \in Procs : FairSet(p)
    \/ \E p \in Procs : FairGet(p)
    \/ \E p \in Procs : SetLock(p)
    \/ \E p \in Procs : SetStore(p)
    \/ \E p \in Procs : GetLock(p)
    \/ \E p \in Procs : GetUnlock(p)
    \/ Tick

\* The scheduler is preemptive, so a goroutine that can run its next step
\* does so (weak fairness); sync.Mutex hands the lock to a waiter that has
\* waited for over 1ms (starvation mode), so a goroutine that finds the
\* mutex free again and again acquires it (strong fairness).
SpecFair ==
    /\ StoreInit /\ [][FairNext]_vars
    /\ \A p \in Procs :
          /\ SF_vars(SetLock(p)) /\ SF_vars(GetLock(p))
          /\ WF_vars(SetStore(p)) /\ WF_vars(GetUnlock(p))

-----------------------------------------------------------------------------
(* RedisCache called directly by concurrent goroutines, the backend shared *)
(* with another client.                                                    *)

\* the time-to-live values drawn: none, which the client sends as no
\* expiry, and one tick
RedisTTLs == {0, 1}

\* r.Set(key, content, header, ttl) is called
RedisSetCall(p) ==
    /\ Free(p)
    /\ calls < MaxRedisCalls
    /\ calls' = calls + 1
    /\ \E k \in Keys, ttl \in RedisTTLs :
          op' = [op EXCEPT ![p] = SetOp(k, Payload(calls').content, Payload(calls').header, ttl)]
    /\ rcall' = [rcall EXCEPT ![p] = NoRedisCall]
    /\ pc' = [pc EXCEPT ![p] = "redis_set"]
    /\ UNCHANGED <<now, mu, store, writing, corrupt, lastSet, backend, tampered,
                   written, codecVars, handlerVars>>

\* r.Get(key) is called
RedisGetCall(p) ==
    /\ Free(p)
    /\ calls < MaxRedisCalls
    /\ calls' = calls + 1
    /\ \E k \in Keys : op' = [op EXCEPT ![p] = [NoOp EXCEPT !.kind = "Get", !.key = k]]
    /\ rcall' = [rcall EXCEPT ![p] = NoRedisCall]
    /\ pc' = [pc EXCEPT ![p] = "redis_get"]
    /\ UNCHANGED <<now, mu, store, writing, corrupt, lastSet, backend, tampered,
                   written, codecVars, handlerVars>>

RedisInit == CacheInit /\ CodecIdle /\ HandlerIdle /\ RedisIdle

RedisNext ==
    \/ \E p \in Procs : RedisSetCall(p)
    \/ \E p \in Procs : RedisGetCall(p)
    \/ \E p \in Procs : RedisSet(p)
    \/ \E p \in Procs : RedisGet(p)
    \/ Tamper
    \/ Tick

SpecRedis == RedisInit /\ [][RedisNext]_vars

-----------------------------------------------------------------------------
(* The request handler over RedisCache. The backend outlives the program:  *)
(* it holds an entry an earlier run stored.                                *)

\* the value an earlier run stored under /foo: a body, no header
OldValue == encodeCacheItem(CacheItem(<<111, 108, 100>>, << >>, ZeroTime), << >>).data

\* the backend the program meets when it starts: the earlier value under
\* /foo without expiry, nothing under any other key
StartBackend ==
    [k \in {"/foo"} |-> [value |-> OldValue, volatile |-> FALSE, expires |-> 0]]

\* main with CACHE_TYPE=redis: loadConfig, NewRedisCache, the handler registered
RemoteInit ==
    /\ CacheInit
    /\ CodecIdle
    /\ configTTL \in ConfigTTLs
    /\ cacheType = "redis"
    /\ wcall = NoCall
    /\ req = [p \in Procs |-> NoReq]
    /\ sink = [p \in Procs |-> NewSink]
    /\ crw = [p \in Procs |-> NewCrw]
    /\ backend = StartBackend
    /\ rcall = [p \in Procs |-> NoRedisCall]
    /\ tampered = FALSE
    /\ written = [k \in Keys |-> IF k \in DOMAIN backend
                                  THEN [last |-> "ok", ever |-> TRUE] ELSE NeverWritten]

RemoteNext ==
    \/ \E p \in Procs : Request(p)
    \/ \E p \in Procs : RedisGet(p)
    \/ \E p \in Procs : RedisSet(p)
    \/ \E p \in Procs : ServeHit(p)
    \/ \E p \in Procs : ServeMiss(p)
    \/ \E p \in Procs : ProxyHeader(p)
    \/ \E p \in Procs : ProxyWrite(p)
    \/ \E p \in Procs : ProxyReturnSet(p)
    \/ \E p \in Procs : ProxyReturn(p)
    \/ Tick

SpecRemote == RemoteInit /\ [][RemoteNext]_vars

\* goroutine p handles a GET and its RedisCache.Get has returned
RemoteLooked(p) ==
    /\ req[p].method = "GET" /\ op[p].kind = "Get" /\ rcall[p].reads = 1
    /\ pc[p] \in {"ret", "done", "proxy", "proxy_body"}

\* the client of goroutine p's GET miss has been sent the whole response of
\* the origin: status, headers, body
ClientHasResponse(p) ==
    /\ req[p].method = "GET" /\ req[p].origin = 1 /\ req[p].left = << >>
    /\ sink[p].status = req[p].resp.status
    /\ sink[p].sent = req[p].resp.header
    /\ sink[p].body = req[p].resp.body

-----------------------------------------------------------------------------
(* Properties of RedisCache.                                               *)

\* goroutine p has returned from RedisCache.Get
RedisGetReturned(p) == op[p].kind = "Get" /\ pc[p] = "ret" /\ rcall[p].reads > 0

\* C10: RedisCache.Get sends one read to the backend and returns only
\* (item, found): a not-found reply, any other read error and any decode
\* error all give (nil, found=false), which the handler takes for a miss;
\* found=true is returned only when the read gave a value and the value
\* decoded without error. A Get sends no write, and a call that has not
\* reached the backend has sent nothing.
C10_RedisGetCollapsesErrors ==
    \A p \in Procs :
        /\ RedisGetReturned(p) =>
               /\ rcall[p].reads = 1 /\ rcall[p].writes = 0
               /\ rcall[p].reply \in {"nil", "error"} => ~op[p].found
               /\ rcall[p].derr => ~op[p].found
               /\ op[p].found <=> (rcall[p].reply = "value" /\ ~rcall[p].derr)
               /\ ~op[p].found => op[p].item = EmptyItem
        /\ pc[p] = "redis_get" => (rcall[p].reads = 0 /\ ~op[p].found)

\* C10 witness: the backend answered a Get with a value that had been cut
\* short, the decoder failed, and Get returned found=false
C10_Witness ==
    \E p \in Procs :
        /\ RedisGetReturned(p) /\ tampered
        /\ rcall[p].reply = "value" /\ rcall[p].derr
        /\ ~op[p].found

-----------------------------------------------------------------------------
(* Properties of SimpleCache.                                              *)

\* C4: after Set(k, b, h, ttl) at time t, a Get(k) whose clock reading is
\* strictly before t+ttl returns found=true with exactly b and h as long as
\* no later Set(k, ...) happened; the map holds for every key exactly the
\* entry its last Set built, so no Get and no Set of another key changes it.
C4_SetThenGet ==
    /\ \A p \in Procs :
          (GetDone(p) /\ op[p].rel = "before") =>
              /\ op[p].found
              /\ op[p].item.content = op[p].seen.item.content
              /\ op[p].item.header = op[p].seen.item.header
    /\ \A k \in Keys :
          /\ (k \in DOMAIN store) <=> lastSet[k].present
          /\ lastSet[k].present => store[k] = lastSet[k].item

\* C4 witness: after the three calls Set(k), Set(other key), Get(k), the Get
\* returned the body and the header of the first call
C4_Witness ==
    \E p \in Procs :
        /\ GetDone(p) /\ op[p].key = "/foo" /\ op[p].found /\ op[p].rel = "before"
        /\ calls = 3
        /\ op[p].item.content = Payload(1).content
        /\ op[p].item.header = Payload(1).header
        /\ lastSet["/foo?x=1"].present
        /\ lastSet["/foo?x=1"].item.content = Payload(2).content

\* C14: Get on a key that was never the subject of a Set returns
\* found=false in every reachable state, whatever Sets and Gets were made
\* on other keys: a key no Set has completed on in the local store, a key
\* no SET was taken for in the backend.
C14_UnknownKeyMisses ==
    \A p \in Procs :
        (GetDone(p) /\ ~lastSet[op[p].key].present /\ ~written[op[p].key].ever) =>
            ~op[p].found

\* C14 witness: /foo was set and a Get of it returned it; then a Get of
\* /foo?x=1, which was never set, returned found=false
C14_Witness ==
    \E p, q \in Procs :
        /\ p # q /\ calls = 3
        /\ GetDone(q) /\ op[q].key = "/foo" /\ op[q].found
        /\ GetDone(p) /\ op[p].key = "/foo?x=1" /\ ~op[p].found
        /\ ~lastSet["/foo?x=1"].present

\* goroutine p is in a call of Set or Get that has not returned
InCall(p) == pc[p] \in {"set_lock", "set_store", "get_lock", "get_unlock"}

\* C19: no operation of SimpleCache blocks indefinitely: under a fair
\* scheduler every call of Get or Set that has started returns, on whichever
\* return path, with the mutex released by it; the mutex is held only by a
\* goroutine inside its critical section, never by one that has returned.
C19_EveryCallReturns ==
    /\ [](\A p \in Procs :
             /\ (mu = p) => pc[p] \in {"set_store", "get_unlock"}
             /\ ~InCall(p) => mu # p)
    /\ \A p \in Procs : InCall(p) ~> (pc[p] = "ret" /\ mu # p)

C19_Witness ==
    \E p, q \in Procs :
        /\ pc[p] = "ret" /\ op[p].kind = "Get" /\ ~op[p].found /\ op[p].rel = "after"
        /\ mu = q /\ pc[q] = "get_unlock" /\ op[q].rel = "after"

\* C18: expiration is lazy only: a step of Get and the passing of time leave
\* the map as it is, no step removes a key, and the keys the map holds are
\* the keys of all the calls to Set that have completed, expired entries
\* included.
C18_NoKeyRemoved ==
    /\ [](DOMAIN store = {k \in Keys : lastSet[k].present})
    /\ [][/\ DOMAIN store \subseteq DOMAIN store'
          /\ ((\E p \in Procs : op[p].kind = "Get" /\ pc'[p] # pc[p]) => store' = store)
          /\ ((now' # now) => store' = store)]_vars

C18_Witness ==
    \E p \in Procs :
        /\ GetDone(p) /\ ~op[p].found /\ op[p].rel = "after"
        /\ op[p].key \in DOMAIN store
        /\ ~TimeBefore(TimeAt(now), store[op[p].key].expiration)

\* C5 as stated: Get returns found=false whenever the entry's expiration is
\* at or before the clock reading, the boundary instant included.
C5_ExpiredAtOrBefore ==
    \A p \in Procs :
        (GetDone(p) /\ op[p].rel \in {"at", "after"}) => ~op[p].found

\* C5 amended: Get returns found=false whenever the entry's expiration is
\* strictly before the clock reading; at the boundary instant, the clock
\* reading equal to the expiration, the entry is still returned.
C5_ExpiredStrictlyBefore ==
    \A p \in Procs :
        GetDone(p) =>
            /\ op[p].rel = "after" => ~op[p].found
            /\ op[p].rel = "at" => (op[p].found /\ op[p].item = op[p].seen.item)

\* C5 witness: Set with ttl=0 at clock 0, then Get at the same clock instant
C5_Witness ==
    \E p \in Procs :
        /\ GetDone(p) /\ op[p].rel = "at" /\ op[p].found
        /\ now = 0
        /\ op[p].item.expiration = TimeAt(0)

\* C6: overwrite is last-writer-wins. Once a Set replaced an entry, the map
\* holds content, header and expiration of that Set (its now + ttl, even if
\* earlier than the replaced entry's expiration, even if the replaced entry
\* had expired), and a Get before that expiration returns them, never those
\* of the replaced entry.
C6_LastWriterWins ==
    /\ \A k \in Keys :
          lastSet[k].replaced =>
              /\ store[k].content = lastSet[k].item.content
              /\ store[k].header = lastSet[k].item.header
              /\ store[k].expiration = lastSet[k].item.expiration
    /\ \A p \in Procs :
          (GetDone(p) /\ op[p].seen.replaced) =>
              /\ op[p].rel = "before" => op[p].found
              /\ op[p].found => op[p].item = op[p].seen.item

\* C6 witness: the second Set had another body and an earlier expiration
\* than the entry it replaced, and a Get before that expiration returned
\* the second body
C6_Witness ==
    \E p \in Procs :
        /\ GetDone(p) /\ op[p].found /\ op[p].rel = "before"
        /\ op[p].seen.shortened
        /\ op[p].item.content = Payload(2).content

\* C7: under concurrent callers the map is never accessed during a write,
\* at most one goroutine is inside the lock, and every Get returns a whole
\* entry: content, header and expiration all of the one Set that last
\* completed on the key when Get looked, the entry before an overlapping
\* Set or the entry it wrote.
C7_NoTornRead ==
    /\ ~corrupt
    /\ Cardinality(writing) <= 1
    /\ \A p \in Procs :
          /\ pc[p] \in {"set_store", "get_unlock"} => mu = p
          /\ op[p].whole
          /\ (GetDone(p) /\ op[p].found) => op[p].item = op[p].seen.item

\* C7 witness: a Get called while a Set of the same key was under way has
\* returned the entry that Set wrote over an older one
C7_Witness ==
    \E p \in Procs :
        /\ GetDone(p) /\ op[p].overlap /\ op[p].found
        /\ op[p].seen.replaced
        /\ op[p].item.content = Payload(2).content

-----------------------------------------------------------------------------
(* The codec exercised on its own: an item is drawn, encoded under some    *)
(* iteration order of its header map, and the text is decoded as it is,    *)
(* or after it was damaged.                                                *)

\* the body of n bytes drawn for the codec: "a", "ab", "abc", ...
CodecBody(n) == [j \in 1..n |-> 96 + j]

\* the i-th header value drawn for the codec; the second one is empty
CodecValue(i) == [j \in 1..((i + 1) % 3) |-> 117 + i + j]

\* the header keys drawn for the codec: "A" and "BC"
CodecKeys == { <<65>>, <<66, 67>> }

\* the headers drawn: any subset of the keys, each with 0..MaxValues values
CodecHeaders ==
    UNION { [ks -> { [i \in 1..n |-> CodecValue(i)] : n \in 0..MaxValues }] :
            ks \in SUBSET CodecKeys }

\* the expirations drawn: the zero time (what RedisCache.Set leaves in the
\* item), a time in a whole-minute zone, one in a zone with seconds, and one
\* in a zone MarshalBinary refuses
CodecTimes ==
    { ZeroTime,
      [sec |-> 300, nsec |-> 7, utc |-> FALSE, offset |-> 3600],
      [sec |-> 70000, nsec |-> 999999999, utc |-> FALSE, offset |-> 19830],
      [sec |-> 5, nsec |-> 0, utc |-> FALSE, offset |-> -75] }

CodecItems ==
    { CacheItem(CodecBody(n), h, t) : n \in 0..MaxBody, h \in CodecHeaders, t \in CodecTimes }

CodecInit ==
    /\ RedisIdle
    /\ cItem \in CodecItems
    /\ cOrder = << >>
    /\ cEnc = NoData
    /\ cData = << >>
    /\ cKind = "new"
    /\ cRes = NoResult
    /\ CacheInit
    /\ HandlerIdle

\* encodeCacheItem(cItem); the map iteration order is the runtime's choice
CodecEncode ==
    /\ cKind = "new"
    /\ \E order \in Orders(DOMAIN cItem.header) :
          /\ cOrder' = order
          /\ cEnc' = encodeCacheItem(cItem, order)
    /\ cKind' = "encoded"
    /\ UNCHANGED <<cItem, cData, cRes, cacheVars, handlerVars, redisVars>>

\* decodeCacheItem(data), data obtained from the encoding as `kind` tells
Decode(data, kind) ==
    /\ cKind = "encoded"
    /\ ~cEnc.err
    /\ cData' = data
    /\ cKind' = kind
    /\ cRes' = decodeCacheItem(data)
    /\ UNCHANGED <<cItem, cOrder, cEnc, cacheVars, handlerVars, redisVars>>

\* the encoding decoded as it is
CodecDecode == Decode(cEnc.data, "valid")

\* the encoding cut after its first n characters
CodecDecodeTruncated ==
    \E n \in 0..(Len(cEnc.data) - 1) : Decode(Take(cEnc.data, n), "truncated")

\* the positions, in the binary form, of the length prefixes of the values
RECURSIVE ValueOffsets(_, _)
ValueOffsets(values, base) ==
    IF values = << >> THEN {}
    ELSE {base} \cup ValueOffsets(Tail(values), base + 4 + Len(values[1]))

\* the positions of the length prefixes of the keys and of their values
RECURSIVE HeaderOffsets(_, _, _)
HeaderOffsets(header, order, base) ==
    IF order = << >> THEN {}
    ELSE LET key == order[1]
         IN  {base}
             \cup ValueOffsets(header[key], base + 4 + Len(key) + 4)
             \cup HeaderOffsets(header, Tail(order),
                                base + Len(EncodeHeaderEntry(key, header[key])))

\* the positions of all byte-length prefixes: body, keys, values, expiration
LengthPrefixOffsets(item, order) ==
    LET bin == EncodeBinary(item, order).data
    IN  {0} \cup HeaderOffsets(item.header, order, 4 + Len(item.content) + 4)
            \cup {Len(bin) - Len(MarshalBinary(item.expiration).data) - 4}

\* bin with the four bytes at position off replaced by the uint32 n
WithPrefix(bin, off, n) ==
    [i \in 1..Len(bin) |-> IF i > off /\ i <= off + 4 THEN PutUint32LE(n)[i - off] ELSE bin[i]]

\* one length prefix claims `extra` bytes more than remain after it
CodecDecodeOverclaimed ==
    LET bin == EncodeBinary(cItem, cOrder).data
    IN  \E off \in LengthPrefixOffsets(cItem, cOrder), extra \in 1..2 :
            Decode(EncodeToString(WithPrefix(bin, off, Len(bin) - off - 4 + extra)),
                   "overclaimed")

\* the timestamp payload is malformed: an unknown version byte, or a payload
\* (and its prefix) one byte short
CodecDecodeBadTimestamp ==
    LET bin  == EncodeBinary(cItem, cOrder).data
        tlen == Len(MarshalBinary(cItem.expiration).data)
        at   == Len(bin) - tlen
    IN  \/ \E v \in {0, 3} :
              Decode(EncodeToString([bin EXCEPT ![at + 1] = v]), "badtimestamp")
        \/ Decode(EncodeToString(WithPrefix(Take(bin, Len(bin) - 1), at - 4, tlen - 1)),
                  "badtimestamp")

CodecNext ==
    \/ CodecEncode
    \/ CodecDecode
    \/ CodecDecodeTruncated
    \/ CodecDecodeOverclaimed
    \/ CodecDecodeBadTimestamp

SpecCodec == CodecInit /\ [][CodecNext]_vars

-----------------------------------------------------------------------------
(* Properties of the codec.                                                *)

\* t.Equal(u): the same instant, whatever the zones
SameInstant(t, u) == t.sec = u.sec /\ t.nsec = u.nsec

\* a valid entry carries an expiration whose zone the binary form of
\* time.Time can express: UTC, or an offset whose whole minutes are not -1
\* and fit sixteen bits
ValidEntry(item) ==
    \/ item.expiration.utc
    \/ LET m == QuoT(item.expiration.offset, 60) IN m # -1 /\ m >= -32768 /\ m <= 32767

\* C8: the codec round trip. Every valid entry is encoded without error, and
\* decoding the encoding succeeds and yields the same body bytes, the same
\* header keys with the same ordered values per key, and the same expiration
\* instant, whatever order encodeCacheItem iterated the header map in.
C8_RoundTrip ==
    /\ (cKind # "new" /\ ValidEntry(cItem)) => ~cEnc.err
    /\ (cKind = "valid") =>
          /\ ~cRes.err
          /\ cRes.item.content = cItem.content
          /\ DOMAIN cRes.item.header = DOMAIN cItem.header
          /\ \A k \in DOMAIN cItem.header : cRes.item.header[k] = cItem.header[k]
          /\ SameInstant(cRes.item.expiration, cItem.expiration)

\* C8 witness: an entry with an empty body, one header without values and one
\* with several (an empty value among them), encoded with the longer key
\* first, was decoded
C8_Witness ==
    /\ cKind = "valid"
    /\ ~cRes.err
    /\ cItem.content = << >>
    /\ DOMAIN cItem.header = CodecKeys
    /\ cItem.header[<<65>>] = << >>
    /\ Len(cItem.header[<<66, 67>>]) = 2
    /\ cOrder[1] = <<66, 67>>
    /\ cItem.expiration.sec = 70000
    /\ cRes.item = cItem

\* C9: decodeCacheItem returns an error for every malformed input: an
\* encoding cut at any position, a length prefix that claims more bytes than
\* remain, a malformed timestamp payload.
C9_MalformedRejected ==
    (cKind \in {"truncated", "overclaimed", "badtimestamp"}) => cRes.err

====
